---- MODULE Spec2Model ----
(***************************************************************************)
(* A model of tools/yago.py: the relational store (sqlite tables), the two *)
(* LevelDB indexes built from it, the taxonomy closure and the compound    *)
(* resolver of class YagoDict.                                             *)
(***************************************************************************)
EXTENDS Integers, Sequences, FiniteSets, TLC

(***************************************************************************)
(* Bounds of the model.                                                    *)
(***************************************************************************)
MaxNodeRows == 3
MaxCpndRows == 2
MaxTaxnRows == 2
MaxHrchRows == 3
MaxClassesLen == 6
MaxBatchSize == 3
MaxLemmas == 2
MaxThreshold == 2
MaxLines == 2
MaxConceptRows == 2

(***************************************************************************)
(* Values.  A label is a sequence of characters; "ya" stands for the       *)
(* Cyrillic letter U+044F, whose UTF-8 encoding has two bytes.  A node     *)
(* identifier is the sequence of its "_"-delimited segments.               *)
(***************************************************************************)
Letters == {"a", "b", "ya"}
WordChars == Letters \cup {"1", "_"}

NodeA == <<"<A>">>
NodeABC == <<"<A", "B", "C>">>
WnX == <<"<wordnet", "x>">>
WnY == <<"<wordnet", "y>">>
WnZ == <<"<wordnet", "z>">>

La == <<"a">>
Lb == <<"b">>
Lya == <<"ya">>
Lab == <<"a", " ", "b">>
Laa == <<"a", " ", "a">>
La1 == <<"a", "1">>

None == [kind |-> "None", nodes |-> {}]
Some(S) == [kind |-> "set", nodes |-> S]
ValueError == [kind |-> "ValueError", nodes |-> {}]

\* How an ingestion call ended: the exception that left it ("none" when it
\* returned) and the number of lines it had consumed before.
Completed(consumed) == [raised |-> "none", consumed |-> consumed]
Raised(exception, consumed) == [raised |-> exception, consumed |-> consumed]

NoArgs == [lemmas |-> <<>>, min_threshold |-> 0, init_len |-> 0, max_len |-> 0,
           prefer_classes |-> FALSE]

VARIABLES
    yago_node,      \* table yago_node: sequence of <<label, node>>, in id order
    yago_cpnd,      \* table yago_cpnd: sequence of <<part, node>>
    yago_taxn,      \* table yago_taxn: sequence of <<ins, cls>>
    yago_hrch,      \* table yago_hrch: sequence of <<child, parent>>
    kvs,            \* LevelDB kvs.db: key -> pickled value
    idx,            \* LevelDB idx.db: key -> pickled value
    kvs_batch,      \* self.kvs_batch: sequence of Put records
    idx_batch,      \* self.idx_batch: sequence of Put records
    kvs_counter,    \* self.__kvs_counter
    batch_size,     \* the number of records between two flushes
    built,          \* the index builds that have completed, in order
    fac_pc,         \* find_all_classes: "idle", "loop" or "done"
    fac_child,      \* find_all_classes: the argument
    classes,        \* find_all_classes: the local list classes
    new_classes,    \* find_all_classes: the local list new_classes
    fac_ret,        \* find_all_classes: the returned set
    q_op,           \* the resolver method last called
    q_args,         \* its arguments
    q_ret,          \* what it returned
    conceptnet,     \* table conceptnet: sequence of <<rel, concept, form, pos>>
    conceptnet_saved, \* its rows as of the last self.sql.commit()
    cn_op,          \* the concept ingestion method last called
    cn_args,        \* its arguments
    cn_ret          \* how it ended: the exception raised and the lines consumed

vars == <<yago_node, yago_cpnd, yago_taxn, yago_hrch, kvs, idx, kvs_batch,
          idx_batch, kvs_counter, batch_size, built, fac_pc, fac_child,
          classes, new_classes, fac_ret, q_op, q_args, q_ret,
          conceptnet, conceptnet_saved, cn_op, cn_args, cn_ret>>

sql_vars == <<yago_node, yago_cpnd, yago_taxn, yago_hrch>>
ldb_vars == <<kvs, idx, kvs_batch, idx_batch, kvs_counter, batch_size, built>>
fac_vars == <<fac_pc, fac_child, classes, new_classes, fac_ret>>
q_vars == <<q_op, q_args, q_ret>>
cn_vars == <<conceptnet, conceptnet_saved, cn_op, cn_args, cn_ret>>

(***************************************************************************)
(* Sequences.                                                              *)
(***************************************************************************)
Range(s) == {s[i] : i \in 1..Len(s)}

Min2(a, b) == IF a <= b THEN a ELSE b

(***************************************************************************)
(* The relational store.  An INSERT that violates a UNIQUE constraint      *)
(* raises sqlite3.IntegrityError, which every sql_insert_* method catches  *)
(* and drops; an INSERT into a table without one appends a row under a     *)
(* fresh id.                                                               *)
(***************************************************************************)
InsertPlain(table, row) == Append(table, row)

InsertUnique(table, row) == IF row \in Range(table) THEN table ELSE Append(table, row)

\* CREATE TABLE yago_node: no UNIQUE constraint over (label, node).
Insert_yago_node(table, row) == InsertPlain(table, row)

\* CREATE TABLE yago_cpnd: UNIQUE (part, node).
Insert_yago_cpnd(table, row) == InsertUnique(table, row)

\* CREATE TABLE yago_taxn: UNIQUE (ins, cls).
Insert_yago_taxn(table, row) == InsertUnique(table, row)

\* CREATE TABLE yago_hrch: UNIQUE (parent, child).
Insert_yago_hrch(table, row) == InsertUnique(table, row)

Idle == fac_pc = "idle" /\ built = <<>> /\ q_op = "none"

sql_insert_entry(label, node) ==
    /\ Idle
    /\ Len(yago_node) < MaxNodeRows
    /\ yago_node' = Insert_yago_node(yago_node, <<label, node>>)
    /\ UNCHANGED <<yago_cpnd, yago_taxn, yago_hrch, ldb_vars, fac_vars, q_vars, cn_vars>>

sql_insert_part(part, node) ==
    /\ Idle
    /\ Len(yago_cpnd) < MaxCpndRows
    /\ yago_cpnd' = Insert_yago_cpnd(yago_cpnd, <<part, node>>)
    /\ UNCHANGED <<yago_node, yago_taxn, yago_hrch, ldb_vars, fac_vars, q_vars, cn_vars>>

sql_insert_txn_transition(inst_node, class_node) ==
    /\ Idle
    /\ Len(yago_taxn) < MaxTaxnRows
    /\ yago_taxn' = Insert_yago_taxn(yago_taxn, <<inst_node, class_node>>)
    /\ UNCHANGED <<yago_node, yago_cpnd, yago_hrch, ldb_vars, fac_vars, q_vars, cn_vars>>

sql_insert_txn_relation(child, parent) ==
    /\ Idle
    /\ Len(yago_hrch) < MaxHrchRows
    /\ yago_hrch' = Insert_yago_hrch(yago_hrch, <<child, parent>>)
    /\ UNCHANGED <<yago_node, yago_cpnd, yago_taxn, ldb_vars, fac_vars, q_vars, cn_vars>>

(***************************************************************************)
(* Concept relations.  A concept is the sequence of its "/"-delimited      *)
(* segments, a segment and a form are sequences of characters.             *)
(***************************************************************************)
\* class ConceptRelation.
ConceptRelation == [ConceptuallyRelatedTo |-> 1, DerivedFrom |-> 2, Synonym |-> 3]

LowerChar(c) ==
    CASE c = "A" -> "a"
      [] c = "B" -> "b"
      [] OTHER -> c

\* unicode.lower()
lower(s) == [i \in 1..Len(s) |-> LowerChar(s[i])]

\* CREATE TABLE conceptnet: PRIMARY KEY (rel, concept, form, pos).
Insert_conceptnet(table, row) == InsertUnique(table, row)

\* Lines 308-324.  With a rel_name outside the three tags the else branch
\* evaluates logging.msg, which the logging module does not have:
\* AttributeError leaves the method before the INSERT, whose except clause
\* catches sqlite3.Error only.
InsertConcept(table, rel_name, form, concept) ==
    LET concept_spl == concept
        concept_low == lower(concept_spl[1])
        pos == IF Len(concept_spl) > 1 THEN concept_spl[Len(concept_spl)] ELSE <<"?">>
        form_low == lower(form)
    IN  IF rel_name = "DerivedFrom"
        THEN [table |-> Insert_conceptnet(table, <<ConceptRelation.DerivedFrom,
                                                  concept_low, form_low, pos>>),
              raised |-> "none"]
        ELSE IF rel_name = "ConceptuallyRelatedTo"
        THEN [table |-> Insert_conceptnet(table, <<ConceptRelation.ConceptuallyRelatedTo,
                                                  concept_low, form_low, pos>>),
              raised |-> "none"]
        ELSE IF rel_name = "Synonym"
        THEN [table |-> Insert_conceptnet(table, <<ConceptRelation.Synonym,
                                                  concept_low, form_low, pos>>),
              raised |-> "none"]
        ELSE [table |-> table, raised |-> "AttributeError"]

\* The file of concept relations is ingested once (line 627).
ConceptIdle == Idle /\ cn_op # "create_conceptnet"

sql_insert_concept(rel_name, form, concept) ==
    /\ ConceptIdle
    /\ Len(conceptnet) < MaxConceptRows
    /\ LET done == InsertConcept(conceptnet, rel_name, form, concept)
       IN  /\ conceptnet' = done.table
           /\ cn_ret' = Raised(done.raised, 0)
    /\ cn_op' = "sql_insert_concept"
    /\ cn_args' = <<[rel_name |-> rel_name, form |-> form, concept |-> concept]>>
    /\ UNCHANGED <<conceptnet_saved, sql_vars, ldb_vars, fac_vars, q_vars>>

\* Line 266: the last field of a line keeps the line's "\n".
SplitLine(line) ==
    [line EXCEPT !.concept = [@ EXCEPT ![Len(@)] = Append(@, "\n")]]

\* Lines 265-267: the loop over the lines, left by the first exception.
RECURSIVE CnLoop(_, _, _)
CnLoop(table, lines, consumed) ==
    IF lines = <<>> THEN [table |-> table, ret |-> Completed(consumed)]
    ELSE LET row == SplitLine(Head(lines))
             done == InsertConcept(table, row.rel_name, row.form, row.concept)
         IN  IF done.raised # "none"
             THEN [table |-> done.table, ret |-> Raised(done.raised, consumed)]
             ELSE CnLoop(done.table, Tail(lines), consumed + 1)

\* Lines 262-268, on the lines of the file; self.sql.commit() is reached only
\* when the loop ends.
create_conceptnet(lines) ==
    /\ ConceptIdle
    /\ LET done == CnLoop(conceptnet, lines, 0)
       IN  /\ conceptnet' = done.table
           /\ cn_ret' = done.ret
           /\ conceptnet_saved' = IF done.ret.raised = "none" THEN done.table
                                  ELSE conceptnet_saved
    /\ cn_op' = "create_conceptnet"
    /\ cn_args' = lines
    /\ UNCHANGED <<sql_vars, ldb_vars, fac_vars, q_vars>>

(***************************************************************************)
(* Taxonomy closure.                                                       *)
(***************************************************************************)
\* SELECT parent FROM yago_hrch WHERE child=?
RECURSIVE SelectParents(_, _)
SelectParents(table, child) ==
    IF table = <<>> THEN <<>>
    ELSE (IF Head(table)[1] = child THEN <<Head(table)[2]>> ELSE <<>>)
         \o SelectParents(Tail(table), child)

\* SELECT cls FROM yago_taxn WHERE ins=?
RECURSIVE SelectClasses(_, _)
SelectClasses(table, instance) ==
    IF table = <<>> THEN <<>>
    ELSE (IF Head(table)[1] = instance THEN <<Head(table)[2]>> ELSE <<>>)
         \o SelectClasses(Tail(table), instance)

find_class(table, instance) ==
    LET found == SelectClasses(table, instance)
    IN  IF Len(found) > 0 THEN Some(Range(found)) ELSE None

\* Line 399: the first query, the parents of child.
FacFirstQuery(child) == SelectParents(yago_hrch, child)

\* One pass of the for loop over children: the parents of each, in order.
RECURSIVE FacExpand(_, _)
FacExpand(table, children) ==
    IF children = <<>> THEN <<>>
    ELSE SelectParents(table, Head(children)) \o FacExpand(table, Tail(children))

\* Lines 397-399: classes = [child], the first query.
find_all_classes_call(child) ==
    /\ fac_pc = "idle"
    /\ built = <<>>
    /\ q_op = "none"
    /\ fac_pc' = "loop"
    /\ fac_child' = child
    /\ classes' = <<child>>
    /\ new_classes' = FacFirstQuery(child)
    /\ UNCHANGED <<fac_ret, sql_vars, ldb_vars, q_vars, cn_vars>>

FacNextOneLevel(table, children) == <<>>

\* Lines 402-405: children = new_classes; new_classes = the parents of each.
FacNext(table, children) == FacExpand(table, children)

\* Lines 400-405: one iteration of the while loop.
find_all_classes_iter ==
    /\ fac_pc = "loop"
    /\ Len(new_classes) > 0
    /\ Len(classes) + Len(new_classes) <= MaxClassesLen
    /\ classes' = classes \o new_classes
    /\ new_classes' = FacNext(yago_hrch, new_classes)
    /\ UNCHANGED <<fac_pc, fac_child, fac_ret, sql_vars, ldb_vars, q_vars, cn_vars>>

\* Line 406: return set(classes).
find_all_classes_return ==
    /\ fac_pc = "loop"
    /\ Len(new_classes) = 0
    /\ fac_pc' = "done"
    /\ fac_ret' = Range(classes)
    /\ UNCHANGED <<fac_child, classes, new_classes, sql_vars, ldb_vars, q_vars, cn_vars>>

(***************************************************************************)
(* Text.  word_re = \b[^\W\d_]+\b (re.UNICODE) matches the maximal runs of *)
(* word characters that consist of letters only: a run that holds a digit  *)
(* or an underscore has no word boundary inside it and yields no match.    *)
(***************************************************************************)
RECURSIVE RunLen(_)
RunLen(s) == IF s = <<>> \/ Head(s) \notin WordChars THEN 0 ELSE 1 + RunLen(Tail(s))

RECURSIVE WordRuns(_)
WordRuns(s) ==
    IF s = <<>> THEN <<>>
    ELSE IF Head(s) \notin WordChars THEN WordRuns(Tail(s))
    ELSE LET n == RunLen(s)
         IN  <<SubSeq(s, 1, n)>> \o WordRuns(SubSeq(s, n + 1, Len(s)))

AllLetters(run) == \A i \in 1..Len(run) : run[i] \in Letters

word_re_findall(label) == SelectSeq(WordRuns(label), AllLetters)

\* unicode.encode("utf-8"): the bytes of each character, in order.
Utf8Char(c) == IF c = "ya" THEN <<"xD1", "x8F">> ELSE <<c>>

RECURSIVE encode(_)
encode(s) == IF s = <<>> THEN <<>> ELSE Utf8Char(Head(s)) \o encode(Tail(s))

pickle_dumps(node_set) == [pickled |-> node_set]
pickle_loads(db_value) == db_value.pickled

\* The code point of a character, which orders the labels under ORDER BY.
CharCode(c) ==
    CASE c = " " -> 32
      [] c = "1" -> 49
      [] c = "_" -> 95
      [] c = "a" -> 97
      [] c = "b" -> 98
      [] c = "ya" -> 1103

RECURSIVE TextLess(_, _)
TextLess(s, t) ==
    IF t = <<>> THEN FALSE
    ELSE IF s = <<>> THEN TRUE
    ELSE IF Head(s) # Head(t) THEN CharCode(Head(s)) < CharCode(Head(t))
    ELSE TextLess(Tail(s), Tail(t))

\* Insert row into a table sorted on its first column, after its equals.
RECURSIVE SortedInsert(_, _)
SortedInsert(sorted, row) ==
    IF sorted = <<>> THEN <<row>>
    ELSE IF TextLess(row[1], Head(sorted)[1]) THEN <<row>> \o sorted
    ELSE <<Head(sorted)>> \o SortedInsert(Tail(sorted), row)

\* SELECT ... FROM table ORDER BY <first column>
RECURSIVE OrderBy(_)
OrderBy(table) ==
    IF table = <<>> THEN <<>>
    ELSE SortedInsert(OrderBy(SubSeq(table, 1, Len(table) - 1)), table[Len(table)])

(***************************************************************************)
(* LevelDB.  A WriteBatch keeps its Put records after db.Write(batch).     *)
(***************************************************************************)
Put(batch, key, value) == Append(batch, [key |-> key, value |-> value])

DbPut(db, key, value) ==
    [k \in DOMAIN db \cup {key} |-> IF k = key THEN value ELSE db[k]]

RECURSIVE Write(_, _)
Write(db, batch) ==
    IF batch = <<>> THEN db
    ELSE Write(DbPut(db, Head(batch).key, Head(batch).value), Tail(batch))

\* db.Get(key) raises KeyError on a missing key; the callers return None.
kvs_map_lemma(db, lemma) ==
    IF lemma \in DOMAIN db THEN Some(pickle_loads(db[lemma])) ELSE None

idx_map_part(db, part) ==
    IF part \in DOMAIN db THEN Some(pickle_loads(db[part])) ELSE None

(***************************************************************************)
(* The index builds.  self is the record of the YagoDict fields they use.  *)
(***************************************************************************)
kvs_insert_entryset(self, label, node_set) ==
    LET put == [self EXCEPT !.kvs_batch = Put(@, label, pickle_dumps(node_set)),
                            !.kvs_counter = @ + 1]
    IN  IF put.kvs_counter % put.batch_size = 0
        THEN [put EXCEPT !.kvs = Write(@, put.kvs_batch)]
        ELSE put

\* Line 375 writes self.kvs_batch, not self.idx_batch, into self.idx.
index_part(self, part, node_set) ==
    LET put == [self EXCEPT !.idx_batch = Put(@, part, pickle_dumps(node_set)),
                            !.kvs_counter = @ + 1]
    IN  IF put.kvs_counter % put.batch_size = 0
        THEN [put EXCEPT !.idx = Write(@, put.kvs_batch)]
        ELSE put

\* prev is <<>> for None and <<key>> for a key.
StartLoop(self) == [prev |-> <<>>, node_set |-> None, self |-> self]

HasNodes(node_set) == node_set.kind = "set" /\ Cardinality(node_set.nodes) > 0

\* Lines 274-279: the body of the loop of create_kvs_from_sql, on one row.
KvsLoopBody(acc, row) ==
    LET label == row[1]
        node == row[2]
        turned ==
            IF <<label>> # acc.prev
            THEN [prev |-> <<label>>,
                  node_set |-> Some({}),
                  self |-> IF HasNodes(acc.node_set)
                           THEN kvs_insert_entryset(acc.self, encode(acc.prev[1]),
                                                    acc.node_set.nodes)
                           ELSE acc.self]
            ELSE acc
    IN  [turned EXCEPT !.node_set = Some(@.nodes \cup {node})]

RECURSIVE KvsLoop(_, _)
KvsLoop(acc, rows) ==
    IF rows = <<>> THEN acc ELSE KvsLoop(KvsLoopBody(acc, Head(rows)), Tail(rows))

KvsLastGroupDropped(acc) == acc.self

\* Lines 280-281: the group still open when the rows end.
KvsLastGroup(acc) ==
    IF HasNodes(acc.node_set)
    THEN kvs_insert_entryset(acc.self, encode(acc.prev[1]), acc.node_set.nodes)
    ELSE acc.self

\* Lines 271-282, on the rows of yago_node.
KvsBuild(self, node_table) ==
    LET done == KvsLastGroup(KvsLoop(StartLoop(self), OrderBy(node_table)))
    IN  [done EXCEPT !.kvs = Write(@, done.kvs_batch)]

\* Lines 288-289: one sql_insert_part per part of the label.
RECURSIVE InsertParts(_, _, _)
InsertParts(cpnd_table, label_parts, node) ==
    IF label_parts = <<>> THEN cpnd_table
    ELSE InsertParts(Insert_yago_cpnd(cpnd_table, <<Head(label_parts), node>>),
                     Tail(label_parts), node)

\* Lines 286-289, over the rows of yago_node.
RECURSIVE IdxDecompose(_, _)
IdxDecompose(cpnd_table, rows) ==
    IF rows = <<>> THEN cpnd_table
    ELSE IdxDecompose(InsertParts(cpnd_table, word_re_findall(Head(rows)[1]), Head(rows)[2]),
                      Tail(rows))

IdxLoopBodyEmitEachRow(acc, row) ==
    [prev |-> <<row[1]>>,
     node_set |-> Some({row[2]}),
     self |-> IF HasNodes(acc.node_set)
              THEN index_part(acc.self, encode(acc.prev[1]), acc.node_set.nodes)
              ELSE acc.self]

\* Lines 294-299: the body of the second loop of create_idx_from_sql.
IdxLoopBody(acc, row) ==
    LET part == row[1]
        node == row[2]
        turned ==
            IF <<part>> # acc.prev
            THEN [prev |-> <<part>>,
                  node_set |-> Some({}),
                  self |-> IF HasNodes(acc.node_set)
                           THEN index_part(acc.self, encode(acc.prev[1]),
                                           acc.node_set.nodes)
                           ELSE acc.self]
            ELSE acc
    IN  [turned EXCEPT !.node_set = Some(@.nodes \cup {node})]

RECURSIVE IdxLoop(_, _)
IdxLoop(acc, rows) ==
    IF rows = <<>> THEN acc ELSE IdxLoop(IdxLoopBody(acc, Head(rows)), Tail(rows))

\* Lines 300-301.
IdxLastGroup(acc) ==
    IF HasNodes(acc.node_set)
    THEN index_part(acc.self, encode(acc.prev[1]), acc.node_set.nodes)
    ELSE acc.self

\* Lines 291-302, on the rows of yago_cpnd.
IdxBuild(self, cpnd_table) ==
    LET done == IdxLastGroup(IdxLoop(StartLoop(self), OrderBy(cpnd_table)))
    IN  [done EXCEPT !.idx = Write(@, done.idx_batch)]

Self ==
    [kvs |-> kvs, idx |-> idx, kvs_batch |-> kvs_batch, idx_batch |-> idx_batch,
     kvs_counter |-> kvs_counter, batch_size |-> batch_size]

SelfBecomes(self) ==
    /\ kvs' = self.kvs
    /\ idx' = self.idx
    /\ kvs_batch' = self.kvs_batch
    /\ idx_batch' = self.idx_batch
    /\ kvs_counter' = self.kvs_counter
    /\ batch_size' = self.batch_size

create_kvs_from_sql ==
    /\ fac_pc = "idle"
    /\ q_op = "none"
    /\ "kvs" \notin Range(built)
    /\ SelfBecomes(KvsBuild(Self, yago_node))
    /\ built' = Append(built, "kvs")
    /\ UNCHANGED <<sql_vars, fac_vars, q_vars, cn_vars>>

create_idx_from_sql ==
    /\ fac_pc = "idle"
    /\ q_op = "none"
    /\ "idx" \notin Range(built)
    /\ yago_cpnd' = IdxDecompose(yago_cpnd, OrderBy(yago_node))
    /\ SelfBecomes(IdxBuild(Self, yago_cpnd'))
    /\ built' = Append(built, "idx")
    /\ UNCHANGED <<yago_node, yago_taxn, yago_hrch, fac_vars, q_vars, cn_vars>>

(***************************************************************************)
(* The compound resolver.                                                  *)
(***************************************************************************)
\* node.startswith("<wordnet"), on the first "_"-delimited segment.
is_class(node) == Head(node) = "<wordnet"

\* Lines 437-442: the loop over node_sets.
RECURSIVE IdxMapLoop(_, _)
IdxMapLoop(intersection, node_sets) ==
    IF node_sets = <<>> THEN intersection.nodes
    ELSE IF Head(node_sets).kind = "set"
         THEN IdxMapLoop(Some(intersection.nodes \cap Head(node_sets).nodes),
                         Tail(node_sets))
         ELSE {}

idx_map_compound(db, compound) ==
    LET node_sets == [i \in 1..Len(compound) |-> idx_map_part(db, encode(compound[i]))]
    IN  IdxMapLoop(node_sets[1], node_sets)

expand_instances(taxn_table, node_set) ==
    {node \in node_set : is_class(node)}
        \cup UNION {find_class(taxn_table, node).nodes :
                        node \in {n \in node_set : ~is_class(n)}}

NotEmpty(node_set) == Cardinality(node_set) > 0

FcKeepAll(initial_sets) == initial_sets

\* Line 484: filter(lambda s: len(s) > 0, initial_sets).
FcFilter(initial_sets) == SelectSeq(initial_sets, NotEmpty)

FcIntersectKeepFirst(intersection, sets) == intersection

\* Lines 488-490: intersection = intersection & initial_sets[i].
RECURSIVE FcIntersect(_, _)
FcIntersect(intersection, sets) ==
    IF sets = <<>> THEN intersection
    ELSE FcIntersect(intersection \cap Head(sets), Tail(sets))

FcReturnEmptyAsNone(intersection) ==
    IF Cardinality(intersection) > 0 THEN Some(intersection) ELSE None

\* Lines 491-493.
FcReturn(intersection) ==
    IF Cardinality(intersection) > 0 THEN Some(intersection) ELSE Some({})

find_compound(db, taxn_table, lemmas) ==
    IF Len(lemmas) = 0 THEN None
    ELSE LET looked == [i \in 1..Len(lemmas) |-> idx_map_compound(db, <<lemmas[i]>>)]
             initial_sets == FcFilter(looked)
         IN  IF Len(initial_sets) = 0 THEN None
             ELSE LET expanded == [i \in 1..Len(initial_sets) |->
                                      expand_instances(taxn_table, initial_sets[i])]
                  IN  FcReturn(FcIntersect(expanded[1], Tail(expanded)))

\* itertools.combinations(range(lo, n + 1), k), as index tuples in its order.
RECURSIVE combinations(_, _, _)
combinations(lo, n, k) ==
    IF k = 0 THEN <<<<>>>>
    ELSE IF lo > n THEN <<>>
    ELSE LET with == combinations(lo + 1, n, k - 1)
         IN  [i \in 1..Len(with) |-> <<lo>> \o with[i]] \o combinations(lo + 1, n, k)

\* Lines 461-463: every comb of every comb_len, in the order of the loops.
RECURSIVE CombsFrom(_, _, _)
CombsFrom(comb_len, stop, n) ==
    IF comb_len >= stop THEN <<>>
    ELSE combinations(1, n, comb_len) \o CombsFrom(comb_len + 1, stop, n)

CombLemmas(lemmas, comb) == [i \in 1..Len(comb) |-> lemmas[comb[i]]]

InitialBestLen == 16777215

BestStepFirstWins(best, nodes, min_threshold) ==
    IF min_threshold <= Cardinality(nodes) /\ Cardinality(nodes) < best.best_len
    THEN [best_nodes |-> Some(nodes), best_len |-> Cardinality(nodes)]
    ELSE best

BestStepNoThreshold(best, nodes, min_threshold) ==
    IF Cardinality(nodes) <= best.best_len
    THEN [best_nodes |-> Some(nodes), best_len |-> Cardinality(nodes)]
    ELSE best

\* Lines 465-467: min_threshold <= len(nodes) <= best_len.
BestStep(best, nodes, min_threshold) ==
    IF min_threshold <= Cardinality(nodes) /\ Cardinality(nodes) <= best.best_len
    THEN [best_nodes |-> Some(nodes), best_len |-> Cardinality(nodes)]
    ELSE best

RECURSIVE BestLoop(_, _, _, _, _)
BestLoop(best, db, lemmas, combs, min_threshold) ==
    IF combs = <<>> THEN best
    ELSE BestLoop(BestStep(best, idx_map_compound(db, CombLemmas(lemmas, Head(combs))),
                           min_threshold),
                  db, lemmas, Tail(combs), min_threshold)

\* Lines 459-467: best_nodes when the loops end.
BestNodes(db, lemmas, min_threshold, init_len, max_len) ==
    BestLoop([best_nodes |-> None, best_len |-> InitialBestLen], db, lemmas,
             CombsFrom(init_len, Min2(Len(lemmas) + 1, max_len + 1), Len(lemmas)),
             min_threshold).best_nodes

PreferLongestName(best_nodes) ==
    IF \E node \in best_nodes : is_class(node)
    THEN {Some({node \in best_nodes : is_class(node)})}
    ELSE IF best_nodes = {} THEN {ValueError}
    ELSE {Some({node}) : node \in {n \in best_nodes :
                                      \A m \in best_nodes : Len(n) >= Len(m)}}

\* Lines 469-477.  min() of an empty sequence raises ValueError; among nodes
\* with equally few segments it returns the first the set iterates over,
\* which is any of them.
PreferClasses(best_nodes) ==
    IF \E node \in best_nodes : is_class(node)
    THEN {Some({node \in best_nodes : is_class(node)})}
    ELSE IF best_nodes = {} THEN {ValueError}
    ELSE {Some({node}) : node \in {n \in best_nodes :
                                      \A m \in best_nodes : Len(n) <= Len(m)}}

\* The outcomes find_compound2 can have.
find_compound2(db, lemmas, min_threshold, init_len, max_len, prefer_classes) ==
    IF Len(lemmas) = 0 THEN {None}
    ELSE LET best_nodes == BestNodes(db, lemmas, min_threshold, init_len, max_len)
         IN  IF prefer_classes /\ best_nodes.kind = "set"
             THEN PreferClasses(best_nodes.nodes)
             ELSE {best_nodes}

Queryable == fac_pc = "idle" /\ q_op = "none" /\ "idx" \in Range(built)

call_find_compound(lemmas) ==
    /\ Queryable
    /\ q_op' = "find_compound"
    /\ q_args' = [NoArgs EXCEPT !.lemmas = lemmas]
    /\ q_ret' = find_compound(idx, yago_taxn, lemmas)
    /\ UNCHANGED <<sql_vars, ldb_vars, fac_vars, cn_vars>>

call_find_compound2(lemmas, min_threshold, init_len, max_len, prefer_classes) ==
    /\ Queryable
    /\ q_op' = "find_compound2"
    /\ q_args' = [lemmas |-> lemmas, min_threshold |-> min_threshold,
                  init_len |-> init_len, max_len |-> max_len,
                  prefer_classes |-> prefer_classes]
    /\ q_ret' \in find_compound2(idx, lemmas, min_threshold, init_len, max_len,
                                 prefer_classes)
    /\ UNCHANGED <<sql_vars, ldb_vars, fac_vars, cn_vars>>

(***************************************************************************)
(* State after YagoDict.__init__ on a fresh database directory.            *)
(***************************************************************************)
EmptyMap == [k \in {} |-> None]

InitTables ==
    /\ yago_node = <<>>
    /\ yago_cpnd = <<>>
    /\ yago_taxn = <<>>
    /\ yago_hrch = <<>>

InitIndexes ==
    /\ kvs = EmptyMap
    /\ idx = EmptyMap
    /\ kvs_batch = <<>>
    /\ idx_batch = <<>>
    /\ kvs_counter = 0
    /\ built = <<>>

InitCalls ==
    /\ fac_pc = "idle"
    /\ fac_child = NodeA
    /\ classes = <<>>
    /\ new_classes = <<>>
    /\ fac_ret = {}
    /\ q_op = "none"
    /\ q_args = NoArgs
    /\ q_ret = None
    /\ conceptnet = <<>>
    /\ conceptnet_saved = <<>>
    /\ cn_op = "none"
    /\ cn_args = <<>>
    /\ cn_ret = Completed(0)

Init ==
    /\ InitTables
    /\ InitIndexes
    /\ InitCalls
    /\ batch_size \in 1..MaxBatchSize

InitOneBatchSize ==
    /\ InitTables
    /\ InitIndexes
    /\ InitCalls
    /\ batch_size = 1

(***************************************************************************)
(* Spec: labels are ingested, then the two indexes are built.              *)
(***************************************************************************)
BuildLabels == {La, Lab, La1, Lya, Laa}
BuildNodes == {NodeA, WnX}

Next ==
    \/ \E label \in BuildLabels, node \in BuildNodes : sql_insert_entry(label, node)
    \/ create_kvs_from_sql
    \/ create_idx_from_sql

Spec == Init /\ [][Next]_vars

(***************************************************************************)
(* SpecStore: ingestion into the four tables.                              *)
(***************************************************************************)
StoreNodes == {NodeA, WnX}

NextStore ==
    \/ \E node \in StoreNodes : sql_insert_entry(La, node)
    \/ \E node \in StoreNodes : sql_insert_part(La, node)
    \/ \E cls \in {WnX, WnY} : sql_insert_txn_transition(NodeA, cls)
    \/ \E child \in {WnX, WnY}, parent \in {WnX, WnY} : sql_insert_txn_relation(child, parent)

SpecStore == InitOneBatchSize /\ [][NextStore]_vars

(***************************************************************************)
(* SpecClosure: hierarchy and instance edges are ingested, then            *)
(* find_all_classes runs on one node.                                      *)
(***************************************************************************)
HrchNodes == {NodeA, WnX, WnY}

NextClosure ==
    \/ \E child \in HrchNodes, parent \in HrchNodes : sql_insert_txn_relation(child, parent)
    \/ \E cls \in {WnX, WnZ} : sql_insert_txn_transition(NodeA, cls)
    \/ \E child \in HrchNodes : find_all_classes_call(child)
    \/ find_all_classes_iter
    \/ find_all_classes_return

SpecClosure == InitOneBatchSize /\ [][NextClosure]_vars

(***************************************************************************)
(* SpecResolveA and SpecResolveB: the resolver on a built database.  The   *)
(* initial states are the states create_kvs_from_sql and then              *)
(* create_idx_from_sql leave behind them, for every set of label rows and  *)
(* of instance->class rows drawn from the sets below.                      *)
(***************************************************************************)
ResolveLabels == {La, Lb}
ResolveNodes == {NodeA, NodeABC, WnX}
ResolveTaxn == {NodeA, NodeABC} \X {WnX, WnY}
Lemmas == {La, Lb, Lya}
DefaultMaxLen == 3

RECURSIVE RowsOf(_)
RowsOf(S) ==
    IF S = {} THEN <<>>
    ELSE LET row == CHOOSE r \in S : TRUE IN <<row>> \o RowsOf(S \ {row})

LemmaLists == UNION {[1..n -> Lemmas] : n \in 0..MaxLemmas}

Fresh(size) ==
    [kvs |-> EmptyMap, idx |-> EmptyMap, kvs_batch |-> <<>>, idx_batch |-> <<>>,
     kvs_counter |-> 0, batch_size |-> size]

InitBuilt(taxn_choices) ==
    /\ \E rows \in SUBSET (ResolveLabels \X ResolveNodes) : yago_node = RowsOf(rows)
    /\ \E rows \in taxn_choices : yago_taxn = RowsOf(rows)
    /\ yago_hrch = <<>>
    /\ yago_cpnd = IdxDecompose(<<>>, OrderBy(yago_node))
    /\ LET self == IdxBuild(KvsBuild(Fresh(1), yago_node), yago_cpnd)
       IN  /\ kvs = self.kvs
           /\ idx = self.idx
           /\ kvs_batch = self.kvs_batch
           /\ idx_batch = self.idx_batch
           /\ kvs_counter = self.kvs_counter
           /\ batch_size = self.batch_size
    /\ built = <<"kvs", "idx">>
    /\ InitCalls

InitResolveA == InitBuilt(SUBSET ResolveTaxn)

NextResolveA ==
    /\ Queryable
    /\ \E lemmas \in LemmaLists : call_find_compound(lemmas)

SpecResolveA == InitResolveA /\ [][NextResolveA]_vars

InitResolveB == InitBuilt({{}})

NextResolveB ==
    /\ Queryable
    /\ \E lemmas \in LemmaLists, min_threshold \in 0..MaxThreshold,
          init_len \in 1..DefaultMaxLen, prefer_classes \in BOOLEAN :
           \E max_len \in init_len..DefaultMaxLen :
               call_find_compound2(lemmas, min_threshold, init_len, max_len,
                                   prefer_classes)

SpecResolveB == InitResolveB /\ [][NextResolveB]_vars

(***************************************************************************)
(* SpecConcept: concept relations are ingested, row by row and file by     *)
(* file.                                                                   *)
(***************************************************************************)
RelNames == {"DerivedFrom", "ConceptuallyRelatedTo", "Synonym", "RelatedTo"}
Forms == {<<"A">>}
Concepts == {<<<<"A">>, <<"n">>>>, <<<<"b">>>>}
Lines == [rel_name : RelNames, form : Forms, concept : Concepts]
Files == UNION {[1..n -> Lines] : n \in 0..MaxLines}

NextConcept ==
    \/ \E rel_name \in RelNames, form \in Forms, concept \in Concepts :
           sql_insert_concept(rel_name, form, concept)
    \/ \E lines \in Files : create_conceptnet(lines)

SpecConcept == InitOneBatchSize /\ [][NextConcept]_vars

(***************************************************************************)
(* What "reachable by one or more child->parent edges" means: the least    *)
(* set that holds the start node and is closed under the rows of yago_hrch.*)
(***************************************************************************)
RECURSIVE ReachFrom(_)
ReachFrom(S) ==
    LET T == S \cup {row[2] : row \in {r \in Range(yago_hrch) : r[1] \in S}}
    IN  IF T = S THEN S ELSE ReachFrom(T)

AncestorClosure(n) == ReachFrom({n})

OnCycle(n) == \E row \in Range(yago_hrch) : row[1] = n /\ n \in AncestorClosure(row[2])

\* C1: find_all_classes never expands a node again once it has been emitted:
\* at the head of the while loop, no node about to be emitted and expanded is
\* already in classes (which is what would make it terminate on cyclic edges).
C1_NoReExpansion ==
    fac_pc = "loop" => \A i \in 1..Len(new_classes) : new_classes[i] \notin Range(classes)

\* What the code does instead: the call returns only when no node reachable
\* from the start node lies on a cycle; otherwise the loop never drains.
FacReturnsOnlyIfAcyclic ==
    fac_pc = "done" => \A n \in AncestorClosure(fac_child) : ~OnCycle(n)

FacCyclicNeverDrains ==
    (fac_pc = "loop" /\ \E n \in AncestorClosure(fac_child) : OnCycle(n))
        => Len(new_classes) > 0

UnchangedOrNewRow(table, table2) ==
    table2 # table => table2[Len(table2)] \notin Range(table)

C10_InsertIdempotent ==
    [][/\ UnchangedOrNewRow(yago_node, yago_node')
       /\ UnchangedOrNewRow(yago_cpnd, yago_cpnd')
       /\ UnchangedOrNewRow(yago_taxn, yago_taxn')
       /\ UnchangedOrNewRow(yago_hrch, yago_hrch')]_vars

\* The three tables that declare a UNIQUE constraint do behave that way.
UniqueTablesIdempotent ==
    [][/\ UnchangedOrNewRow(yago_cpnd, yago_cpnd')
       /\ UnchangedOrNewRow(yago_taxn, yago_taxn')
       /\ UnchangedOrNewRow(yago_hrch, yago_hrch')]_vars

(***************************************************************************)
(* What the relational store holds, read declaratively.                    *)
(***************************************************************************)
StoredLabels == {row[1] : row \in Range(yago_node)}

NodesUnder(label) == {row[2] : row \in {r \in Range(yago_node) : r[1] = label}}

StoredParts == UNION {Range(word_re_findall(label)) : label \in StoredLabels}

NodesWithPart(part) ==
    {row[2] : row \in {r \in Range(yago_node) : part \in Range(word_re_findall(r[1]))}}

\* C8: once create_kvs_from_sql has completed, the Label Index holds exactly
\* one key per label of yago_node, kvs_map_lemma of a label returns exactly
\* the nodes inserted under it, a label without rows yields None, and no key
\* is stored with an empty set.
C8_LabelIndexExact ==
    /\ \A k \in DOMAIN kvs : pickle_loads(kvs[k]) # {}
    /\ "kvs" \in Range(built) =>
        /\ DOMAIN kvs = {encode(label) : label \in StoredLabels}
        /\ \A label \in StoredLabels :
              kvs_map_lemma(kvs, encode(label)) = Some(NodesUnder(label))
        /\ \A label \in BuildLabels \ StoredLabels :
              kvs_map_lemma(kvs, encode(label)) = None

\* A completed build over three rows, two of them under one label and one
\* under a label outside ASCII, with a flush in the middle of the build.
C8_Witness ==
    /\ "kvs" \in Range(built)
    /\ Len(yago_node) = 3
    /\ \E label \in StoredLabels : Cardinality(NodesUnder(label)) = 2
    /\ Lya \in StoredLabels
    /\ batch_size = 1

\* C9: after create_kvs_from_sql and then create_idx_from_sql, whatever the
\* batch size, the Part Index holds exactly one key per distinct part, mapped
\* to the nodes whose label contains the part, and no other key.
C9_PartIndexExact ==
    built = <<"kvs", "idx">> =>
        /\ DOMAIN idx = {encode(part) : part \in StoredParts}
        /\ \A part \in StoredParts :
              idx_map_part(idx, encode(part)) = Some(NodesWithPart(part))

\* What the code does instead: every part is a key with the right set, and
\* the other keys are records of the Label Index batch.
IdxPartsRightAmongOthers ==
    "idx" \in Range(built) =>
        /\ \A part \in StoredParts :
              idx_map_part(idx, encode(part)) = Some(NodesWithPart(part))
        /\ \A k \in DOMAIN idx :
              \/ k \in {encode(part) : part \in StoredParts}
              \/ k \in DOMAIN kvs /\ built = <<"kvs", "idx">>

(***************************************************************************)
(* The resolver's inputs and outcomes, read declaratively.                 *)
(***************************************************************************)
InIndex(lemma) == encode(lemma) \in DOMAIN idx

IdxNodes(lemma) == IF InIndex(lemma) THEN idx[encode(lemma)].pickled ELSE {}

Inter(family) == {x \in UNION family : \A S \in family : x \in S}

ExpandedToClasses(S) ==
    {x \in S : Head(x) = "<wordnet"}
        \cup {row[2] : row \in {r \in Range(yago_taxn) :
                                   r[1] \in S /\ Head(r[1]) # "<wordnet"}}

Hits == {i \in 1..Len(q_args.lemmas) : IdxNodes(q_args.lemmas[i]) # {}}

\* C3: find_compound returns None exactly when the lemma list is empty or no
\* lemma has a non-empty Part Index set; otherwise it returns the intersection
\* of the expand_instances images of the non-empty per-lemma sets, as a set
\* even when that intersection is empty.
C3_AbsentVsEmpty ==
    q_op = "find_compound" =>
        /\ q_ret = None <=> Hits = {}
        /\ Hits # {} =>
              q_ret = Some(Inter({ExpandedToClasses(IdxNodes(q_args.lemmas[i])) : i \in Hits}))

\* Two lemmas that each matched and expand to classes, with no node in common.
C3_Witness ==
    /\ q_op = "find_compound"
    /\ Len(q_args.lemmas) = 2
    /\ Hits = {1, 2}
    /\ \A i \in Hits : ExpandedToClasses(IdxNodes(q_args.lemmas[i])) # {}
    /\ q_ret = Some({})

HasAbsentLemma == \E i \in 1..Len(q_args.lemmas) : ~InIndex(q_args.lemmas[i])

\* C4, as claimed: when some lemma of the list is absent from the Part Index,
\* find_compound returns None or the empty set, never a non-empty set.
C4_AbsentLemmaForcesEmpty ==
    (q_op = "find_compound" /\ HasAbsentLemma) =>
        q_ret.kind \in {"None", "set"} /\ q_ret.nodes = {}

\* C4, amended: a lemma absent from the Part Index is discarded before the
\* intersection; the call raises nothing and returns what it returns for the
\* list without the absent lemmas.
C4_AbsentLemmaDiscarded ==
    (q_op = "find_compound" /\ HasAbsentLemma) =>
        /\ q_ret.kind \in {"None", "set"}
        /\ q_ret = find_compound(idx, yago_taxn, SelectSeq(q_args.lemmas, InIndex))

\* A list with an absent lemma and a lemma that matched: a non-empty result.
C4_Witness ==
    /\ q_op = "find_compound"
    /\ HasAbsentLemma
    /\ Hits # {}
    /\ q_ret.kind = "set"
    /\ q_ret.nodes # {}

(***************************************************************************)
(* The combinations find_compound2 enumerates, as sets of positions of the *)
(* lemma list: those of each size from init_len to min(max_len,            *)
(* len(lemmas)), smaller before larger and, within a size, in the          *)
(* lexicographic order of their ascending tuples.                          *)
(***************************************************************************)
EnumCombs ==
    LET n == Len(q_args.lemmas)
    IN  {c \in SUBSET (1..n) :
            /\ Cardinality(c) >= q_args.init_len
            /\ Cardinality(c) <= Min2(q_args.max_len, n)}

CombSet(c) == Inter({IdxNodes(q_args.lemmas[i]) : i \in c})

\* The node set of every enumerated combination.
CombSets == [c \in EnumCombs |-> CombSet(c)]

\* The combinations whose set reaches min_threshold.
QualifyingOf(sets) == {c \in DOMAIN sets : Cardinality(sets[c]) >= q_args.min_threshold}

Qualifying == QualifyingOf(CombSets)

\* Enumeration order: size ascending, then itertools.combinations order.
Before(c, d) ==
    \/ Cardinality(c) < Cardinality(d)
    \/ /\ Cardinality(c) = Cardinality(d)
       /\ \E i \in c \ d : \A j \in d \ c : i < j

\* c's set is the set of the first / of the last combination, in enumeration
\* order, among those of `among` whose set is smallest.
IsFirstMinimal(sets, among, c) ==
    \A d \in among :
        \/ Cardinality(sets[d]) > Cardinality(sets[c])
        \/ /\ Cardinality(sets[d]) = Cardinality(sets[c])
           /\ (sets[d] = sets[c] \/ Before(c, d))

IsLastMinimal(sets, among, c) ==
    \A d \in among :
        \/ Cardinality(sets[d]) > Cardinality(sets[c])
        \/ /\ Cardinality(sets[d]) = Cardinality(sets[c])
           /\ (sets[d] = sets[c] \/ Before(d, c))

\* C5, as claimed: for min_threshold >= 1 and either value of prefer_classes,
\* find_compound2 never returns a set smaller than min_threshold, and returns
\* None when no enumerated combination reaches min_threshold.
C5_NeverBelowThreshold ==
    (q_op = "find_compound2" /\ q_args.min_threshold >= 1) =>
        /\ q_ret.kind = "set" => Cardinality(q_ret.nodes) >= q_args.min_threshold
        /\ Qualifying = {} => q_ret = None

\* C5, amended: for min_threshold >= 1, find_compound2 returns None exactly
\* when no enumerated combination reaches min_threshold; with prefer_classes
\* off the returned set is never smaller than min_threshold; with
\* prefer_classes on it is a non-empty subset of a combination's set that
\* reaches min_threshold, and may itself be smaller.
C5_ThresholdOnBestSet ==
    (q_op = "find_compound2" /\ q_args.min_threshold >= 1) =>
        \A sets \in {CombSets} : \A among \in {QualifyingOf(sets)} :
            /\ among = {} => q_ret = None
            /\ among # {} => q_ret.kind = "set"
            /\ (q_ret.kind = "set" /\ ~q_args.prefer_classes) =>
                  Cardinality(q_ret.nodes) >= q_args.min_threshold
            /\ (q_ret.kind = "set" /\ q_args.prefer_classes) =>
                  /\ q_ret.nodes # {}
                  /\ \E c \in among : q_ret.nodes \subseteq sets[c]

\* prefer_classes on, min_threshold 2: one node returned out of a best set of two.
C5_Witness ==
    /\ q_op = "find_compound2"
    /\ q_args.prefer_classes
    /\ q_args.min_threshold = 2
    /\ q_ret.kind = "set"
    /\ Cardinality(q_ret.nodes) = 1

PreferFiltersClasses ==
    /\ q_op = "find_compound2"
    /\ q_args.prefer_classes
    /\ q_ret = Some({WnX})
    /\ \E sets \in {CombSets} : \E among \in {QualifyingOf(sets)} :
          \E c \in among : /\ sets[c] = {NodeA, WnX}
                           /\ IsLastMinimal(sets, among, c)

(***************************************************************************)
(* Reorderings of a lemma list.                                            *)
(***************************************************************************)
Reorderings(seq) ==
    LET n == Len(seq)
    IN  {[i \in 1..n |-> seq[p[i]]] :
            p \in {f \in [1..n -> 1..n] : \A i, j \in 1..n : f[i] = f[j] => i = j}}

\* C11: find_compound returns the same outcome (both absent, or the same node
\* set) for a lemma list and for every permutation of it, over the same part
\* index and taxonomy.
C11_OrderInsensitive ==
    q_op = "find_compound" =>
        \A permuted \in Reorderings(q_args.lemmas) :
            find_compound(idx, yago_taxn, permuted) = q_ret

\* Two different lemmas that map to different non-empty node sets, and a
\* non-empty result.
C11_Witness ==
    /\ q_op = "find_compound"
    /\ Len(q_args.lemmas) = 2
    /\ IdxNodes(q_args.lemmas[1]) # {}
    /\ IdxNodes(q_args.lemmas[2]) # {}
    /\ IdxNodes(q_args.lemmas[1]) # IdxNodes(q_args.lemmas[2])
    /\ q_ret.kind = "set"
    /\ q_ret.nodes # {}

\* C12: find_compound and find_compound2 raise no error, whatever the lemma
\* list (empty, or with lemmas absent from the part index), min_threshold >= 0,
\* 1 <= init_len <= max_len and prefer_classes: they return absent, an empty
\* set or a node set, and absent for the empty lemma list.
C12_NoErrorOnMiss ==
    q_op \in {"find_compound", "find_compound2"} =>
        /\ q_ret = None \/ q_ret.kind = "set"
        /\ q_args.lemmas = <<>> => q_ret = None

\* Where the error comes from: prefer_classes on an empty best set, which only
\* min_threshold = 0 lets through.
ErrorOnlyOnEmptyBestSet ==
    (q_op = "find_compound2" /\ q_ret = ValueError) =>
        /\ q_args.prefer_classes
        /\ q_args.min_threshold = 0
        /\ \E c \in EnumCombs : CombSet(c) = {}

(***************************************************************************)
(* The records the builds emit.  kvs_insert_entryset and index_part Put    *)
(* every record they are called with into kvs_batch and idx_batch, and no  *)
(* batch is ever cleared, so a batch is the list of the emitted records in *)
(* the order of their emission.                                            *)
(***************************************************************************)
EmittedSet(batch, i) == pickle_loads(batch[i].value)

\* Where in the batch the record of each key of `keys` is.
EmittedAt(batch, keys) ==
    [k \in keys |-> {i \in 1..Len(batch) : batch[i].key = encode(k)}]

\* One record per key of `keys` and no other, in the order the rows are read in.
OncePerKeyInOrder(batch, keys, at) ==
    /\ Len(batch) = Cardinality(keys)
    /\ \A k \in keys : Cardinality(at[k]) = 1
    /\ \A k, l \in keys :
          TextLess(k, l) => \A i \in at[k], j \in at[l] : i < j

\* C13: in both index builds the record of a key is emitted exactly once,
\* after every row of the key has been read (the records follow the order of
\* the keys), and carries the nodes of all rows of the key; no key's set is
\* split across two records and no record with an empty set is emitted.
C13_GroupedEmission ==
    /\ "kvs" \notin Range(built) => kvs_batch = <<>>
    /\ "idx" \notin Range(built) => idx_batch = <<>>
    /\ "kvs" \in Range(built) =>
          \A labels \in {StoredLabels} : \A at \in {EmittedAt(kvs_batch, labels)} :
              /\ OncePerKeyInOrder(kvs_batch, labels, at)
              /\ \A label \in labels : \A i \in at[label] :
                    EmittedSet(kvs_batch, i) = NodesUnder(label)
    /\ "idx" \in Range(built) =>
          \A parts \in {StoredParts} : \A at \in {EmittedAt(idx_batch, parts)} :
              /\ OncePerKeyInOrder(idx_batch, parts, at)
              /\ \A part \in parts : \A i \in at[part] :
                    EmittedSet(idx_batch, i) = NodesWithPart(part)
    /\ \A i \in 1..Len(kvs_batch) : EmittedSet(kvs_batch, i) # {}
    /\ \A i \in 1..Len(idx_batch) : EmittedSet(idx_batch, i) # {}

\* Both builds done over rows where a label and a part each have two nodes
\* and each build emits at least two records.
C13_Witness ==
    /\ "kvs" \in Range(built)
    /\ "idx" \in Range(built)
    /\ Len(kvs_batch) >= 2
    /\ Len(idx_batch) >= 2
    /\ \E label \in StoredLabels : Cardinality(NodesUnder(label)) = 2
    /\ \E part \in StoredParts : \E label \in StoredLabels :
          /\ <<part>> # word_re_findall(label)
          /\ part \in Range(word_re_findall(label))
          /\ Cardinality(NodesWithPart(part)) = 2

(***************************************************************************)
(* Concept ingestion, read declaratively.                                  *)
(***************************************************************************)
KnownRelNames == {"DerivedFrom", "ConceptuallyRelatedTo", "Synonym"}

\* C14: an unknown relation-type tag is logged and the row dropped: it adds no
\* row to the conceptnet table, no error reaches the caller of
\* sql_insert_concept, and create_conceptnet goes on with the next lines (it
\* consumes every line of the file and reaches its commit).
C14_UnknownTagDropped ==
    /\ (cn_op = "sql_insert_concept" /\ cn_args[1].rel_name \notin KnownRelNames) =>
          cn_ret.raised = "none"
    /\ cn_op = "create_conceptnet" =>
          /\ cn_ret = Completed(Len(cn_args))
          /\ conceptnet_saved = conceptnet

\* What holds of an unknown tag: the call adds no row to the table.
UnknownTagAddsNoRow ==
    [][(cn_op' = "sql_insert_concept" /\ cn_args'[1].rel_name \notin KnownRelNames)
          => conceptnet' = conceptnet]_vars

\* What the code does with an unknown tag: the error leaves both methods, the
\* lines after it are not consumed and the commit is not reached.
UnknownTagEndsRun ==
    /\ (cn_op = "sql_insert_concept" /\ cn_args[1].rel_name \notin KnownRelNames) =>
          cn_ret.raised = "AttributeError"
    /\ cn_op = "create_conceptnet" =>
          IF \E i \in 1..Len(cn_args) : cn_args[i].rel_name \notin KnownRelNames
          THEN /\ cn_ret.raised = "AttributeError"
               /\ cn_ret.consumed < Len(cn_args)
               /\ cn_args[cn_ret.consumed + 1].rel_name \notin KnownRelNames
               /\ \A i \in 1..cn_ret.consumed : cn_args[i].rel_name \in KnownRelNames
          ELSE /\ cn_ret = Completed(Len(cn_args))
               /\ conceptnet_saved = conceptnet

====
